---------------------------- MODULE Spec2Model ----------------------------
(***************************************************************************)
(* The ChartMuseum component resource of pulumi-chartmuseumx.              *)
(*                                                                         *)
(* The repository holds two revisions of the component:                    *)
(*   src/index.ts          - provider switch, IAM credentials, secret      *)
(*   src/unnamed/part_000  - storage options in the args, bucket only      *)
(* Both constructors are modelled; `variant` says which one is running.    *)
(* Definitions that model part_000 carry the prefix P0.                    *)
(*                                                                         *)
(* A composition is one run of the constructor.  Every `new Resource(...)` *)
(* appends a resource description to `declared`, in program order.         *)
(*                                                                         *)
(* Encoding of JavaScript values:                                          *)
(*   object            function from its own keys to values; a key that    *)
(*                     is not set is not in the DOMAIN                     *)
(*   boolean, number   BOOLEAN, Nat                                        *)
(*   string            a TLA+ string; a string that the code passes to     *)
(*                     toUpperCase() is kept as a sequence of characters   *)
(*                     and turned into a string by Str when it is emitted  *)
(*   undefined         Undefined                                           *)
(*   Output<T>         Out(resource, path): a handle on an output of a     *)
(*                     declared resource, resolved later by the engine     *)
(***************************************************************************)
EXTENDS Naturals, Sequences, FiniteSets, TLC

VARIABLES
    variant,    \* which source file's constructor runs
    name,       \* constructor parameter `name`
    userArgs,   \* constructor parameter `args`
    config,     \* module-level provider / region read from pulumi.Config
    pc,         \* position in the constructor
    this,       \* the fields of the ChartMuseum object assigned so far
    declared,   \* the resources registered so far, in declaration order
    error       \* the exception that ended the constructor, if any

vars == <<variant, name, userArgs, config, pc, this, declared, error>>

-----------------------------------------------------------------------------
(* Bounds of the model *)

MaxReplicas == 2

-----------------------------------------------------------------------------
(* JavaScript values *)

Undefined == "<undefined>"
NoError == "<none>"
NoParent == "<stack>"
Empty == [k \in {} |-> k]

Out(res, path) == [res |-> res, out |-> path]
Lit(s) == [lit |-> s]

\* mutation: a merge that descends into the nested option objects
DeepSpread(a, b) ==
    [k \in DOMAIN a \cup DOMAIN b |->
        IF k \notin DOMAIN b THEN a[k]
        ELSE IF k \in {"service", "storage"} /\ k \in DOMAIN a
             THEN [s \in DOMAIN a[k] \cup DOMAIN b[k] |->
                      IF s \in DOMAIN b[k] THEN b[k][s] ELSE a[k][s]]
             ELSE b[k]]

\* {...a, ...b}: the own keys of a, then the own keys of b over them; each
\* value is copied as it is, a nested object as a whole.
Spread(a, b) ==
    [k \in DOMAIN a \cup DOMAIN b |-> IF k \in DOMAIN b THEN b[k] ELSE a[k]]

\* mutation: String(x), without the negation
StringNotSame(x) == IF x THEN "true" ELSE "false"

\* String(!x) for a boolean x
StringNot(x) == IF x THEN "false" ELSE "true"

\* obj?.key and obj.key on an object that exists
Get(obj, key) == IF key \in DOMAIN obj THEN obj[key] ELSE Undefined

LowerChars == <<"a","b","c","d","e","f","g","h","i","j","k","l","m",
                "n","o","p","q","r","s","t","u","v","w","x","y","z">>
UpperChars == <<"A","B","C","D","E","F","G","H","I","J","K","L","M",
                "N","O","P","Q","R","S","T","U","V","W","X","Y","Z">>

UpperChar(c) ==
    IF \E i \in DOMAIN LowerChars : LowerChars[i] = c
    THEN UpperChars[CHOOSE i \in DOMAIN LowerChars : LowerChars[i] = c]
    ELSE c

\* String.prototype.toUpperCase on a sequence of characters
toUpperCase(s) == [i \in DOMAIN s |-> UpperChar(s[i])]

\* the string a sequence of characters spells
RECURSIVE Str(_)
Str(s) == IF s = <<>> THEN "" ELSE Head(s) \o Str(Tail(s))

-----------------------------------------------------------------------------
(* Inputs *)

Variants == {"index", "part_000"}
Names == {"a", "b"}

Amazon == <<"a","m","a","z","o","n">>
UsWest2 == <<"u","s","-","w","e","s","t","-","2">>
Gcp == <<"G","c","p">>
EuWest1 == <<"e","u","-","w","e","s","t","-","1">>

Opt(key, values) == {Empty} \cup {(key :> v) : v \in values}

ServiceObjects == {Empty, [type |-> "NodePort"]}
StorageObjects ==
    { c @@ r : c \in Opt("cloud", {Amazon, Gcp}),
               r \in Opt("region", {UsWest2, EuWest1}) }

UserArgs(v) ==
    { ns @@ re @@ ap @@ me @@ se @@ st :
        ns \in Opt("namespace", {"museum"}),
        re \in Opt("replicas", 0..MaxReplicas),
        ap \in Opt("api", BOOLEAN),
        me \in Opt("metrics", BOOLEAN),
        se \in Opt("service", ServiceObjects),
        st \in IF v = "part_000" THEN Opt("storage", StorageObjects) ELSE {Empty} }

Configs(v) ==
    IF v = "index"
    THEN [provider : {"aws", "gcp", "amazon"}, region : {"us-west-2", "eu-west-1"}]
    ELSE {Empty}

-----------------------------------------------------------------------------
(* The defaults and the fixed parts of the resources *)

ChartMuseumDefaults ==
    [namespace |-> "chartmuseum",
     replicas  |-> 1,
     service   |-> [type |-> "ClusterIP"],
     api       |-> FALSE,
     metrics   |-> FALSE]

P0ChartMuseumDefaults ==
    [namespace |-> "chartmuseum",
     replicas  |-> 1,
     service   |-> [type |-> "ClusterIP"],
     api       |-> FALSE,
     metrics   |-> FALSE,
     storage   |-> [cloud |-> Amazon, region |-> UsWest2]]

labels == [app |-> "chartmuseum", release |-> name]

ComponentType == "jaxxstorm:chartmuseum"

\* the probes, ports and the rest of the container that do not depend on
\* the inputs
ContainerFixed ==
    [name |-> "chartmuseum",
     image |-> "chartmuseum/chartmuseum:v0.12.0",
     imagePullPolicy |-> "IfNotPresent",
     args |-> <<"--port=8080">>,
     ports |-> <<[name |-> "http", containerPort |-> 8080]>>,
     probe |-> [path |-> "/health", port |-> "http", failureThreshold |-> 3,
                initialDelaySeconds |-> 5, periodSeconds |-> 10,
                successThreshold |-> 1, timeoutSeconds |-> 1]]

-----------------------------------------------------------------------------
(* Reading the state *)

Declared(type) == {i \in DOMAIN declared : declared[i].type = type}
Has(type) == Declared(type) # {}
The(type) == declared[CHOOSE i \in Declared(type) : TRUE]
IndexOf(n) == CHOOSE i \in DOMAIN declared : declared[i].name = n

Init ==
    /\ variant \in Variants
    /\ name \in Names
    /\ userArgs \in UserArgs(variant)
    /\ config \in Configs(variant)
    /\ pc = "start"
    /\ this = Empty
    /\ declared = <<>>
    /\ error = NoError

Inputs == <<variant, name, userArgs, config>>

Declare(r) == declared' = Append(declared, r)

Parent(r) == IF "parent" \in DOMAIN r.opts THEN r.opts.parent ELSE NoParent
DependsOn(r) == IF "dependsOn" \in DOMAIN r.opts THEN r.opts.dependsOn ELSE {}

-----------------------------------------------------------------------------
(* src/index.ts: ChartMuseum.constructor *)

NamespaceName == "chartmuseum-" \o name \o "-namespace"
BucketName == "chartmuseum-" \o name \o "-bucket"
IamUserName == "chartmuseum-" \o name \o "-iam-user"
UserPolicyName == "chartmuseum-" \o name \o "-iam-policy"
AccessKeyName == "chartmuseum-" \o name \o "-iam-accesskey"
SecretName == "chartmuseum-" \o name \o "-secret"
DeploymentName == "chartmuseum-" \o name \o "-deployment"
ServiceName == "chartmuseum-" \o name \o "-service"

NamespaceType == "kubernetes:core/v1:Namespace"
BucketType == "aws:s3:Bucket"
IamUserType == "aws:iam:User"
UserPolicyType == "aws:iam:UserPolicy"
AccessKeyType == "aws:iam:AccessKey"
SecretType == "kubernetes:core/v1:Secret"
DeploymentType == "kubernetes:apps/v1:Deployment"
ServiceType == "kubernetes:core/v1:Service"

\* this.args = {...ChartMuseumDefaults, ...args}
ResolveArgs == Spread(ChartMuseumDefaults, userArgs)

\* super(...), this.name, this.args, this.api, this.metrics, labels
Super ==
    /\ pc = "start"
    /\ variant = "index"
    /\ Declare([type |-> ComponentType, name |-> name, opts |-> Empty])
    /\ this' = [name    |-> name,
                args    |-> ResolveArgs,
                api     |-> StringNot(ResolveArgs.api),
                metrics |-> StringNot(ResolveArgs.metrics)]
    /\ pc' = "namespace"
    /\ UNCHANGED <<Inputs, error>>

NamespaceOpts == [parent |-> name]

Namespace ==
    /\ pc = "namespace"
    /\ variant = "index"
    /\ Declare([type |-> NamespaceType, name |-> NamespaceName,
                metadata |-> [name |-> this.args.namespace, labels |-> labels],
                opts |-> NamespaceOpts])
    /\ this' = this @@ ("namespace" :> NamespaceName)
    /\ pc' = "switch"
    /\ UNCHANGED <<Inputs, error>>

\* mutation: a switch that takes the "aws" branch for every provider
AnyProvider == TRUE

\* switch (provider) { case "aws":
CaseAws == config.provider = "aws"

BucketOpts == [parent |-> name]

Bucket ==
    /\ pc = "switch"
    /\ variant = "index"
    /\ CaseAws
    /\ Declare([type |-> BucketType, name |-> BucketName, opts |-> BucketOpts])
    /\ this' = this @@ ("bucket" :> BucketName)
    /\ pc' = "iamUser"
    /\ UNCHANGED <<Inputs, error>>

IamUserOpts == [parent |-> name]

IamUser ==
    /\ pc = "iamUser"
    /\ Declare([type |-> IamUserType, name |-> IamUserName,
                path |-> "/chartmuseum/", opts |-> IamUserOpts])
    /\ pc' = "userPolicy"
    /\ UNCHANGED <<Inputs, this, error>>

\* the document that bucket.bucket.apply(...) builds from the bucket's name
PolicyDocument ==
    [apply |-> Out(this.bucket, "bucket"),
     Version |-> "2012-10-17",
     Statement |->
        <<[Sid |-> "AllowListObjects", Effect |-> "Allow",
           Action |-> <<"s3:ListBucket">>,
           Resource |-> <<"arn:aws:s3:::", "bucketName">>],
          [Sid |-> "AllowObjectsCRUD", Effect |-> "Allow",
           Action |-> <<"s3:DeleteObject", "s3:GetObject", "s3:PutObject">>,
           Resource |-> <<"arn:aws:s3:::", "bucketName", "/*">>]>>]

UserPolicyOpts == [parent |-> IamUserName]

UserPolicy ==
    /\ pc = "userPolicy"
    /\ Declare([type |-> UserPolicyType, name |-> UserPolicyName,
                user |-> Out(IamUserName, "name"),
                policy |-> PolicyDocument,
                opts |-> UserPolicyOpts])
    /\ pc' = "accessKey"
    /\ UNCHANGED <<Inputs, this, error>>

AccessKeyOpts == [parent |-> IamUserName]

AccessKey ==
    /\ pc = "accessKey"
    /\ Declare([type |-> AccessKeyType, name |-> AccessKeyName,
                user |-> Out(IamUserName, "name"),
                opts |-> AccessKeyOpts])
    /\ pc' = "secret"
    /\ UNCHANGED <<Inputs, this, error>>

\* accessKey.<field>.apply(k => Buffer.from(k).toString("base64"))
Base64Of(field) == [apply |-> Out(AccessKeyName, field), encoding |-> "base64"]

SecretMetadata ==
    [namespace |-> Out(this.namespace, "metadata.name"), labels |-> labels]

\* mutation: the secret owned by the component instead of the namespace
SecretOptsComponent == [parent |-> name]

SecretOpts == [parent |-> this.namespace]

\* the secret, then this.cloudProvider, this.cloudProviderRegion and break
Secret ==
    /\ pc = "secret"
    /\ Declare([type |-> SecretType, name |-> SecretName,
                metadata |-> SecretMetadata,
                data |-> [AWS_ACCESS_KEY_ID     |-> Base64Of("id"),
                          AWS_SECRET_ACCESS_KEY |-> Base64Of("secret")],
                opts |-> SecretOpts])
    /\ this' = this @@ [secret              |-> SecretName,
                        cloudProvider       |-> Amazon,
                        cloudProviderRegion |-> config.region]
    /\ pc' = "deployment"
    /\ UNCHANGED <<Inputs, error>>

\* default: throw new pulumi.RunError("Must specify a cloud provider")
RunError ==
    /\ pc = "switch"
    /\ variant = "index"
    /\ ~CaseAws
    /\ pc' = "failed"
    /\ error' = "RunError: Must specify a cloud provider"
    /\ UNCHANGED <<Inputs, this, declared>>

SecretKeyRef(key) ==
    [name |-> key,
     valueFrom |-> [secretKeyRef |->
                       [name |-> Out(this.secret, "metadata.name"), key |-> key]]]

CommonEnv ==
    <<[name |-> "DISABLE_API", value |-> Lit(this.api)],
      [name |-> "DISABLE_METRICS", value |-> Lit(this.metrics)],
      [name |-> "LOG_JSON", value |-> Lit("true")],
      [name |-> "PROV_POST_FORM_FIELD_NAME", value |-> Lit("prov")]>>

StorageEnv ==
    <<[name |-> "STORAGE", value |-> Lit(Str(this.cloudProvider))],
      [name |-> "STORAGE_" \o Str(toUpperCase(this.cloudProvider)) \o "_REGION",
       value |-> Lit(this.cloudProviderRegion)],
      [name |-> "STORAGE_" \o Str(toUpperCase(this.cloudProvider)) \o "_BUCKET",
       value |-> Out(this.bucket, "bucket")]>>

\* mutation: the credentials passed as values instead of secret references
DeploymentEnvLiteralCredentials ==
    CommonEnv \o StorageEnv \o
    <<[name |-> "AWS_ACCESS_KEY_ID", value |-> Out(AccessKeyName, "id")],
      [name |-> "AWS_SECRET_ACCESS_KEY", value |-> Out(AccessKeyName, "secret")]>>

DeploymentEnv ==
    CommonEnv \o StorageEnv \o
    <<SecretKeyRef("AWS_ACCESS_KEY_ID"), SecretKeyRef("AWS_SECRET_ACCESS_KEY")>>

\* mutation: the deployment without its dependency on the bucket
DeploymentOptsNoDependsOn == [parent |-> this.namespace]

DeploymentOpts == [parent |-> this.namespace, dependsOn |-> {this.bucket}]

DeploymentSpec(container) ==
    [selector |-> [matchLabels |-> labels],
     replicas |-> this.args.replicas,
     strategy |-> [rollingUpdate |-> [maxUnavailable |-> 0], type |-> "RollingUpdate"],
     template |->
        [metadata |-> [name |-> name, labels |-> labels],
         spec |-> [securityContext |-> [fsGroup |-> 1000],
                   containers |-> <<container>>,
                   volumes |-> <<[name |-> "storage-volume"]>>]]]

Deployment ==
    /\ pc = "deployment"
    /\ variant = "index"
    /\ Declare([type |-> DeploymentType, name |-> DeploymentName,
                metadata |-> [namespace |-> Out(this.namespace, "metadata.name"),
                              labels |-> labels],
                spec |-> DeploymentSpec(ContainerFixed @@ [env |-> DeploymentEnv]),
                opts |-> DeploymentOpts])
    /\ this' = this @@ ("deployment" :> DeploymentName)
    /\ pc' = "service"
    /\ UNCHANGED <<Inputs, error>>

ServiceOpts == [parent |-> this.namespace]

\* mutation: a selector that leaves out the release label
ServiceSelectorAppOnly == [app |-> "chartmuseum"]

ServiceSelector == labels

Service ==
    /\ pc = "service"
    /\ variant = "index"
    /\ Declare([type |-> ServiceType, name |-> ServiceName,
                metadata |-> [labels |-> labels,
                              namespace |-> Out(this.namespace, "metadata.name")],
                spec |-> [type |-> Get(this.args.service, "type"),
                          ports |-> <<[port |-> 80, targetPort |-> "http",
                                       protocol |-> "TCP", name |-> "http"]>>,
                          selector |-> ServiceSelector],
                opts |-> ServiceOpts])
    /\ this' = this @@ ("service" :> ServiceName)
    /\ pc' = "done"
    /\ UNCHANGED <<Inputs, error>>

-----------------------------------------------------------------------------
(* src/unnamed/part_000: ChartMuseum.constructor *)

P0BucketName == name \o "-bucket"
P0NamespaceName == name \o "-namespace"
P0DeploymentName == name \o "-deployment"
P0ServiceName == name \o "-service"

P0ResolveArgs == Spread(P0ChartMuseumDefaults, userArgs)

P0Super ==
    /\ pc = "start"
    /\ variant = "part_000"
    /\ Declare([type |-> ComponentType, name |-> name, opts |-> Empty])
    /\ this' = [name    |-> name,
                args    |-> P0ResolveArgs,
                api     |-> StringNot(P0ResolveArgs.api),
                metrics |-> StringNot(P0ResolveArgs.metrics)]
    /\ pc' = "bucket"
    /\ UNCHANGED <<Inputs, error>>

P0Bucket ==
    /\ pc = "bucket"
    /\ variant = "part_000"
    /\ Declare([type |-> BucketType, name |-> P0BucketName, opts |-> [parent |-> name]])
    /\ this' = this @@ ("bucket" :> P0BucketName)
    /\ pc' = "namespace"
    /\ UNCHANGED <<Inputs, error>>

P0Namespace ==
    /\ pc = "namespace"
    /\ variant = "part_000"
    /\ Declare([type |-> NamespaceType, name |-> P0NamespaceName,
                metadata |-> [name |-> this.args.namespace, labels |-> labels],
                opts |-> [parent |-> name]])
    /\ this' = this @@ ("namespace" :> P0NamespaceName)
    /\ pc' = "deployment"
    /\ UNCHANGED <<Inputs, error>>

\* this.args.storage.region.toUpperCase() and this.args.storage.cloud
\* .toUpperCase() are calls on strings only when both keys are set
P0StorageComplete == {"cloud", "region"} \subseteq DOMAIN this.args.storage

P0StorageEnv ==
    <<[name |-> "STORAGE", value |-> Lit(Str(this.args.storage.cloud))],
      [name |-> "STORAGE_" \o Str(toUpperCase(this.args.storage.region)) \o "_REGION",
       value |-> Lit(Str(this.args.storage.region))],
      [name |-> "STORAGE_" \o Str(toUpperCase(this.args.storage.cloud)) \o "_BUCKET",
       value |-> Out(this.bucket, "bucket")]>>

P0DeploymentEnv == CommonEnv \o P0StorageEnv

P0Container ==
    ContainerFixed @@
    [env |-> P0DeploymentEnv,
     volumeMounts |-> <<[mountPath |-> "/storage", name |-> "storage-volume"]>>]

P0Deployment ==
    /\ pc = "deployment"
    /\ variant = "part_000"
    /\ P0StorageComplete
    /\ Declare([type |-> DeploymentType, name |-> P0DeploymentName,
                metadata |-> [namespace |-> Out(this.namespace, "metadata.name"),
                              name |-> name,
                              labels |-> labels],
                spec |-> DeploymentSpec(P0Container),
                opts |-> [parent |-> this.namespace, dependsOn |-> {this.bucket}]])
    /\ this' = this @@ ("deployment" :> P0DeploymentName)
    /\ pc' = "service"
    /\ UNCHANGED <<Inputs, error>>

\* toUpperCase of undefined: the env list cannot be built, the constructor
\* throws before the deployment is declared
P0TypeError ==
    /\ pc = "deployment"
    /\ variant = "part_000"
    /\ ~P0StorageComplete
    /\ pc' = "failed"
    /\ error' = "TypeError"
    /\ UNCHANGED <<Inputs, this, declared>>

P0Service ==
    /\ pc = "service"
    /\ variant = "part_000"
    /\ Declare([type |-> ServiceType, name |-> P0ServiceName,
                metadata |-> [name |-> this.name, labels |-> labels],
                spec |-> [type |-> Get(this.args.service, "type"),
                          ports |-> <<[port |-> 8080, targetPort |-> "http",
                                       protocol |-> "TCP", name |-> "http"]>>,
                          selector |-> labels],
                opts |-> [parent |-> this.namespace]])
    /\ this' = this @@ ("service" :> P0ServiceName)
    /\ pc' = "done"
    /\ UNCHANGED <<Inputs, error>>

-----------------------------------------------------------------------------

Next ==
    \/ Super \/ Namespace \/ Bucket \/ IamUser \/ UserPolicy \/ AccessKey
    \/ Secret \/ RunError \/ Deployment \/ Service
    \/ P0Super \/ P0Bucket \/ P0Namespace \/ P0Deployment \/ P0TypeError
    \/ P0Service

Spec == Init /\ [][Next]_vars


-----------------------------------------------------------------------------
(* Properties *)

Defaults == IF variant = "index" THEN ChartMuseumDefaults ELSE P0ChartMuseumDefaults

\* the option the caller asked for, or its documented default
EffectiveOption(k) == IF k \in DOMAIN userArgs THEN userArgs[k] ELSE Defaults[k]

Env == The(DeploymentType).spec.template.spec.containers[1].env
EnvNamed(n) == {i \in DOMAIN Env : Env[i].name = n}

CredentialVars == {"AWS_ACCESS_KEY_ID", "AWS_SECRET_ACCESS_KEY"}

\* the provider identifier the composition resolved, as characters
ResolvedProvider ==
    IF variant = "index" THEN this.cloudProvider ELSE this.args.storage.cloud

\* the resources whose output handles a resource description embeds
Embedded(r) ==
    CASE r.type = UserPolicyType -> {r.user.res, r.policy.apply.res}
      [] r.type = AccessKeyType  -> {r.user.res}
      [] r.type = SecretType     ->
            {r.metadata.namespace.res} \cup {r.data[k].apply.res : k \in DOMAIN r.data}
      [] r.type = DeploymentType ->
            LET env == r.spec.template.spec.containers[1].env IN
            {r.metadata.namespace.res}
            \cup {env[i].value.res :
                    i \in {j \in DOMAIN env : "value" \in DOMAIN env[j]
                                              /\ "res" \in DOMAIN env[j].value}}
            \cup {env[i].valueFrom.secretKeyRef.name.res :
                    i \in {j \in DOMAIN env : "valueFrom" \in DOMAIN env[j]}}
      [] r.type = ServiceType    ->
            IF "namespace" \in DOMAIN r.metadata THEN {r.metadata.namespace.res} ELSE {}
      [] OTHER -> {}

Needs(r) == ({Parent(r)} \ {NoParent}) \cup DependsOn(r) \cup Embedded(r)

NamespacedTypes == {SecretType, DeploymentType, ServiceType}
StorageTypes == {BucketType, IamUserType, UserPolicyType, AccessKeyType}

\* C1: in a composition that succeeded, DISABLE_API is "false" when the
\* effective api option is true and "true" when it is false or defaulted,
\* and DISABLE_METRICS likewise against the metrics option, each flag on its
\* own.
C1_FlagsInverted ==
    pc = "done" =>
        \A f \in {<<"DISABLE_API", "api">>, <<"DISABLE_METRICS", "metrics">>} :
            /\ Cardinality(EnvNamed(f[1])) = 1
            /\ \A i \in EnvNamed(f[1]) :
                  Env[i].value = Lit(IF EffectiveOption(f[2]) THEN "false" ELSE "true")

C1_Witness ==
    /\ pc = "done"
    /\ EffectiveOption("api") = TRUE
    /\ EffectiveOption("metrics") = FALSE
    /\ "metrics" \notin DOMAIN userArgs

\* C2: in a composition that succeeded, the region variable is named
\* STORAGE_<P>_REGION and the bucket variable STORAGE_<P>_BUCKET, where <P>
\* is the upper case of the provider identifier that STORAGE carries.
C2_StorageNames ==
    pc = "done" =>
        /\ Env[5].name = "STORAGE"
        /\ Env[5].value = Lit(Str(ResolvedProvider))
        /\ Env[6].name = "STORAGE_" \o Str(toUpperCase(ResolvedProvider)) \o "_REGION"
        /\ Env[7].name = "STORAGE_" \o Str(toUpperCase(ResolvedProvider)) \o "_BUCKET"

C4_DependenciesFirst ==
    /\ \A i \in DOMAIN declared :
          \A n \in Needs(declared[i]) :
              \E j \in 1..(i - 1) : declared[j].name = n
    /\ Has(DeploymentType) =>
          /\ Has(BucketType)
          /\ The(BucketType).name \in DependsOn(The(DeploymentType))
          /\ IndexOf(The(BucketType).name) < IndexOf(The(DeploymentType).name)

C4_Witness ==
    /\ pc = "done"
    /\ Has(SecretType)
    /\ Has(UserPolicyType)
    /\ The(BucketType).name \in DependsOn(The(DeploymentType))

\* C5: the namespace is the first resource declared after the component;
\* the order is namespace, storage and credential resources, deployment,
\* service.
Rank(type) ==
    CASE type = ComponentType  -> 0
      [] type = NamespaceType  -> 1
      [] type = DeploymentType -> 3
      [] type = ServiceType    -> 4
      [] OTHER -> 2

C5_NamespaceFirst ==
    /\ Len(declared) >= 2 => declared[2].type = NamespaceType
    /\ \A i, j \in DOMAIN declared :
          i < j => Rank(declared[i].type) <= Rank(declared[j].type)

\* C6 as stated: deployment, service and secret have the namespace as
\* parent; the namespace and every storage or credential resource have the
\* component as parent.
C6_Original ==
    \A i \in DOMAIN declared :
        LET r == declared[i] IN
        /\ r.type \in NamespacedTypes => Parent(r) = The(NamespaceType).name
        /\ r.type \in StorageTypes \cup {NamespaceType} => Parent(r) = name

\* C6, amended: deployment, service and secret have the namespace as
\* parent; the namespace, the bucket and the credential principal have the
\* component as parent; the policy and the access key have the credential
\* principal as parent; the parent relation is a tree rooted at the
\* component.
C6_Ownership ==
    /\ \A i \in DOMAIN declared :
          LET r == declared[i] IN
          /\ r.type \in NamespacedTypes => Parent(r) = The(NamespaceType).name
          /\ r.type \in {NamespaceType, BucketType, IamUserType} => Parent(r) = name
          /\ r.type \in {UserPolicyType, AccessKeyType} => Parent(r) = The(IamUserType).name
          /\ r.type = ComponentType => i = 1 /\ Parent(r) = NoParent /\ r.name = name
          /\ i > 1 => \E j \in 1..(i - 1) : declared[j].name = Parent(r)
    /\ \A i, j \in DOMAIN declared : declared[i].name = declared[j].name => i = j

C6_Witness ==
    /\ pc = "done"
    /\ Has(AccessKeyType)
    /\ Parent(The(AccessKeyType)) = The(IamUserType).name
    /\ Parent(The(SecretType)) = The(NamespaceType).name

C8_SelectorIsLabels ==
    pc = "done" =>
        LET d == The(DeploymentType)
            s == The(ServiceType)
            l == [app |-> "chartmuseum", release |-> name]
        IN /\ s.spec.selector = l
           /\ d.metadata.labels = l
           /\ d.spec.selector.matchLabels = l
           /\ d.spec.template.metadata.labels = l

C8_Witness ==
    /\ pc = "done"
    /\ name = "b"
    /\ The(ServiceType).spec.selector.release = "b"
    /\ The(DeploymentType).spec.template.metadata.labels.release = "b"

\* C9: the deployment's env holds AWS_ACCESS_KEY_ID and
\* AWS_SECRET_ACCESS_KEY exactly when a secret was declared; each is then a
\* reference to the declared secret under the key of its own name and has
\* no literal value.
C9_CredentialsBySecretRef ==
    Has(DeploymentType) =>
        \A n \in CredentialVars :
            /\ (EnvNamed(n) # {}) <=> Has(SecretType)
            /\ \A i \in EnvNamed(n) :
                  /\ "value" \notin DOMAIN Env[i]
                  /\ "valueFrom" \in DOMAIN Env[i]
                  /\ Env[i].valueFrom.secretKeyRef =
                        [name |-> Out(The(SecretType).name, "metadata.name"), key |-> n]

C9_Witness ==
    /\ pc = "done"
    /\ Has(SecretType)
    /\ \A n \in CredentialVars : Cardinality(EnvNamed(n)) = 1

\* C10: in a composition that succeeded, the secret, the deployment and the
\* service each set metadata.namespace to the name handle of the namespace
\* declared in the same composition.
C10_SameNamespace ==
    pc = "done" =>
        \A i \in DOMAIN declared :
            declared[i].type \in NamespacedTypes =>
                /\ "namespace" \in DOMAIN declared[i].metadata
                /\ declared[i].metadata.namespace =
                      Out(The(NamespaceType).name, "metadata.name")

=============================================================================
